---- MODULE Spec2Model ----
(***************************************************************************)
(* Model of the document-analysis backend (backend/main.py): the process   *)
(* wide session registry `chatbot_sessions`, the process wide `analysis`   *)
(* string, and the request handlers that read and write them.              *)
(*                                                                         *)
(* Strings are sequences of tokens, so that "" is <<>> and a template is   *)
(* the concatenation of its fixed text with the analysis it embeds.        *)
(* Optional[str] is <<>> for None and <<s>> for the string s.              *)
(***************************************************************************)
EXTENDS Integers, Sequences, FiniteSets, TLC

\* ------------------------------------------------------------------ bounds
MaxChats == 2          \* /chat/ handlers started in one behaviour
MaxPending == 1        \* /chat/ requests received and not yet handled

SessionIds == {"s1", "s2"}
Messages == {<<"m1">>}
Answer == <<"answer">>
EmptyStr == <<>>
\* texts the summarization service can return ("" included)
Analyses == {EmptyStr, <<"a1">>, <<"a2">>}
None == <<>>
Some(s) == <<s>>
\* system_prompt field of a ChatRequest: None, "" or a real prompt
SystemPrompts == {None, Some(EmptyStr), Some(<<"p1">>)}

\* --------------------------------------------------------------- variables
\* the server: registry, stored analysis, requests in flight, last response
VARIABLES chatbot_sessions, analysis, pending, running, nchat, resp
\* one DocumentAnalysis.run: the two extracted texts, the change records,
\* the brief handed to the summarization service, and how far run has got
VARIABLES original_text, modified_text, differences, llm_input, pc
svars == <<chatbot_sessions, analysis, pending, running, nchat, resp>>
dvars == <<original_text, modified_text, differences, llm_input, pc>>
vars == <<chatbot_sessions, analysis, pending, running, nchat, resp,
          original_text, modified_text, differences, llm_input, pc>>

\* ------------------------------------------------------- python truthiness
Truthy(s) == s # EmptyStr
TruthyOpt(o) == o # None /\ Truthy(o[1])

\* ------------------------------------------------------ prompt_templates
TemplatePrefix == <<"Act as a legal document analysis assistant.", "Context:">>
TemplateSuffix == <<"\n">>

\* bug: an f-string guarded by the analysis, empty when the analysis is empty
default_chat_template_guarded(a) ==
  IF a = EmptyStr THEN EmptyStr ELSE TemplatePrefix \o a \o TemplateSuffix
default_chat_template(a) == TemplatePrefix \o a \o TemplateSuffix


\* ------------------------------------------------------------- ChatBot
\* One turn of the history; `req` is the arrival number of the request that
\* appended it.
Turn(role, content, req) == [role |-> role, content |-> content, req |-> req]

ChatBot(system_prompt) == [system_prompt |-> system_prompt, history |-> <<>>]
set_system_prompt(bot, prompt) == [bot EXCEPT !.system_prompt = prompt]
clear_conversation(bot) == [bot EXCEPT !.history = <<>>]
get_conversation_history(bot) == bot.history
\* chat(): the User turn is appended before the external call ...
chat_ask(bot, message, req) ==
  [bot EXCEPT !.history = Append(@, Turn("user", message, req))]
\* ... and the Assistant turn only when the call produced an answer.
ChatOutcomes == {"error", "empty", "text"}
chat_text(outcome) == IF outcome = "text" THEN Answer ELSE EmptyStr
chat_answer(bot, outcome, req) ==
  IF outcome = "text"
  THEN [bot EXCEPT !.history = Append(@, Turn("assistant", Answer, req))]
  ELSE bot

\* ---------------------------------------------------------------- helpers
Sessions == DOMAIN chatbot_sessions
Put(reg, sid, bot) == (sid :> bot) @@ reg
EmptyRegistry == [s \in {} |-> ChatBot(EmptyStr)]

NoReq == [session_id |-> "s1", message |-> EmptyStr, system_prompt |-> None]
\* The outcome of the last completed request, as its client sees it (op,
\* status, body, history), with the request, the reply of the external
\* service (ext) and the shared state before and after the handler ran.
Response(op, status, req, n, ext, body, hist, before, beforeAnalysis, after, afterAnalysis) ==
  [op |-> op, status |-> status, req |-> req, n |-> n, ext |-> ext,
   body |-> body, history |-> hist, before |-> before, after |-> after,
   beforeAnalysis |-> beforeAnalysis, afterAnalysis |-> afterAnalysis]
NoResp ==
  Response("none", 0, NoReq, 0, "none", EmptyStr, <<>>,
           EmptyRegistry, EmptyStr, EmptyRegistry, EmptyStr)
PathReq(sid) == [session_id |-> sid, message |-> EmptyStr, system_prompt |-> None]
RemoveAt(q, i) == SubSeq(q, 1, i - 1) \o SubSeq(q, i + 1, Len(q))

ChatRequest == [session_id : SessionIds, message : Messages, system_prompt : SystemPrompts]

Init ==
  /\ chatbot_sessions = EmptyRegistry
  /\ analysis = EmptyStr
  /\ pending = <<>>
  /\ running = {}
  /\ nchat = 0
  /\ resp = NoResp
  /\ original_text = EmptyStr
  /\ modified_text = EmptyStr
  /\ differences = <<>>
  /\ llm_input = EmptyStr
  /\ pc = "idle"

\* ------------------------------------------------------------ event loop
\* Every handler is an `async def` without an await: once the event loop has
\* started one it runs to its return (or raise) before another can start.
\* bug: the handler yields at the external call (an awaited client)
LoopFree_yielding == TRUE
LoopFree == running = {}

\* A /chat/ request reaches the server and waits for the event loop.
ReceiveChat(req) ==
  /\ Len(pending) < MaxPending
  /\ nchat + Len(pending) < MaxChats
  /\ pending' = Append(pending, req)
  /\ UNCHANGED <<chatbot_sessions, analysis, running, nchat, resp>>
  /\ UNCHANGED dvars

\* ----------------------------------------------------------------- /chat/
\* bug: a new ChatBot for every request
NeedsCreate_always(sid) == TRUE
\* main.py:103
NeedsCreate(sid) == sid \notin Sessions
\* bug: the default prompt is built from an empty analysis
ChosenPrompt_blank(system_prompt, an) ==
  IF TruthyOpt(system_prompt) THEN system_prompt[1] ELSE default_chat_template(EmptyStr)
\* main.py:105-107
ChosenPrompt(system_prompt, an) ==
  IF TruthyOpt(system_prompt) THEN system_prompt[1] ELSE default_chat_template(an)
\* bug: set_system_prompt(request.system_prompt or default_system_prompt)
ApplyOverride_refresh(bot, system_prompt) ==
  set_system_prompt(bot, IF TruthyOpt(system_prompt) THEN system_prompt[1]
                         ELSE default_chat_template(analysis))
\* bug: the override is honoured at creation only
ApplyOverride_ignored(bot, system_prompt) == bot
\* main.py:119-120
ApplyOverride(bot, system_prompt) ==
  IF TruthyOpt(system_prompt) THEN set_system_prompt(bot, system_prompt[1]) ELSE bot
\* bug: the emptiness check is missing
ResponseOk_unchecked(response_text) == TRUE
\* main.py:124
ResponseOk(response_text) == Truthy(response_text)

\* main.py:102-123, up to the external call inside chatbot.chat
ChatStart(i) ==
  /\ LoopFree
  /\ i \in 1..Len(pending)
  /\ LET req == pending[i]
         sid == req.session_id
         n == nchat + 1
         system_prompt == ChosenPrompt(req.system_prompt, analysis)
         created == IF NeedsCreate(sid)
                    THEN Put(chatbot_sessions, sid, ChatBot(system_prompt))
                    ELSE chatbot_sessions
         chatbot == ApplyOverride(created[sid], req.system_prompt)
     IN /\ pending' = RemoveAt(pending, i)
        /\ nchat' = n
        /\ IF NeedsCreate(sid) /\ ~Truthy(system_prompt)
           THEN \* ValueError, wrapped into CustomException
                /\ resp' = Response("chat", 500, req, n, "none", EmptyStr, <<>>,
                                    chatbot_sessions, analysis, chatbot_sessions, analysis)
                /\ UNCHANGED <<chatbot_sessions, analysis, running>>
           ELSE /\ chatbot_sessions' = Put(created, sid, chat_ask(chatbot, req.message, n))
                /\ running' = running \cup
                      {[n |-> n, req |-> req, before |-> chatbot_sessions,
                        beforeAnalysis |-> analysis]}
                /\ UNCHANGED <<analysis, resp>>
  /\ UNCHANGED dvars

\* bug: a failed first turn removes the session it created
ChatFinish_rollback(h, outcome) ==
  /\ h \in running
  /\ outcome \in ChatOutcomes
  /\ LET sid == h.req.session_id
         response_text == chat_text(outcome)
         ok == outcome # "error" /\ ResponseOk(response_text)
         answered == Put(chatbot_sessions, sid,
                         chat_answer(chatbot_sessions[sid], outcome, h.n))
         after == IF ~ok /\ sid \notin DOMAIN h.before
                  THEN [s \in Sessions \ {sid} |-> chatbot_sessions[s]]
                  ELSE answered
     IN /\ chatbot_sessions' = after
        /\ running' = running \ {h}
        /\ resp' = Response("chat", IF ok THEN 200 ELSE 500, h.req, h.n, outcome,
                            IF ok THEN response_text ELSE EmptyStr, <<>>,
                            h.before, h.beforeAnalysis, after, analysis)
        /\ UNCHANGED <<analysis, pending, nchat>>
  /\ UNCHANGED dvars
\* main.py:123-130, from the reply of the external call on
ChatFinish(h, outcome) ==
  /\ h \in running
  /\ outcome \in ChatOutcomes
  /\ LET sid == h.req.session_id
         response_text == chat_text(outcome)
         ok == outcome # "error" /\ ResponseOk(response_text)
         after == Put(chatbot_sessions, sid, chat_answer(chatbot_sessions[sid], outcome, h.n))
     IN /\ chatbot_sessions' = after
        /\ running' = running \ {h}
        /\ resp' = Response("chat", IF ok THEN 200 ELSE 500, h.req, h.n, outcome,
                            IF ok THEN response_text ELSE EmptyStr, <<>>,
                            h.before, h.beforeAnalysis, after, analysis)
        /\ UNCHANGED <<analysis, pending, nchat>>
  /\ UNCHANGED dvars

\* ---------------------------------------------------- /chat/clear/{sid}
\* bug: clear replaces the session by a fresh default one
ClearedRegistry_reset(sid) ==
  Put(chatbot_sessions, sid, ChatBot(default_chat_template(analysis)))
\* bug: del chatbot_sessions[session_id]
ClearedRegistry_removed(sid) == [s \in Sessions \ {sid} |-> chatbot_sessions[s]]
\* main.py:135-136
ClearedRegistry(sid) == Put(chatbot_sessions, sid, clear_conversation(chatbot_sessions[sid]))
\* bug: a get-or-create lookup (setdefault) in place of the membership test
MissRegistry_created(sid) ==
  Put(chatbot_sessions, sid, ChatBot(default_chat_template(analysis)))
\* main.py:138-139 and 147-148
MissRegistry(sid) == chatbot_sessions

clear_chat_session(sid) ==
  /\ LoopFree
  /\ LET found == sid \in Sessions
         after == IF found THEN ClearedRegistry(sid) ELSE MissRegistry(sid)
     IN /\ chatbot_sessions' = after
        /\ resp' = Response("clear", IF found THEN 200 ELSE 404, PathReq(sid), 0, "none",
                            EmptyStr, <<>>, chatbot_sessions, analysis, after, analysis)
        /\ UNCHANGED <<analysis, pending, running, nchat>>
  /\ UNCHANGED dvars

\* -------------------------------------------------- /chat/history/{sid}
get_chat_history(sid) ==
  /\ LoopFree
  /\ LET found == sid \in Sessions
         after == IF found THEN chatbot_sessions ELSE MissRegistry(sid)
     IN /\ chatbot_sessions' = after
        /\ resp' = Response("history", IF found THEN 200 ELSE 404, PathReq(sid), 0, "none",
                            EmptyStr,
                            IF found THEN get_conversation_history(chatbot_sessions[sid])
                                     ELSE <<>>,
                            chatbot_sessions, analysis, after, analysis)
        /\ UNCHANGED <<analysis, pending, running, nchat>>
  /\ UNCHANGED dvars

\* ------------------------------------------------------ DocumentAnalysis
\* What requests.post(...).json() gives analyze_document_changes: a transport
\* error, a body without 'response', or a body whose 'response' is a text
\* (the empty text included).
NarrationReplies ==
  {[kind |-> "error", text |-> EmptyStr], [kind |-> "missing", text |-> EmptyStr]}
    \cup {[kind |-> "text", text |-> a] : a \in Analyses}
NarrationExt(narr) ==
  IF narr.kind = "text" /\ narr.text = EmptyStr THEN "empty" ELSE narr.kind

\* bug: a failure is swallowed and run returns ''
Raised_swallowed == [raised |-> FALSE, value |-> EmptyStr]
Raised == [raised |-> TRUE, value |-> EmptyStr]
Returned(v) == [raised |-> FALSE, value |-> v]

\* bug: a failed call is repeated once, and the second call answers
analyze_document_changes_retry(narr) ==
  IF narr.kind = "text" THEN Returned(narr.text) ELSE Returned(<<"a1">>)
\* document_analysis.py:133-140
analyze_document_changes(narr) ==
  IF narr.kind = "text" THEN Returned(narr.text) ELSE Raised

\* document_analysis.py:468-473; extraction, diffing and formatting succeed
\* or raise (extractOk), then narration, then the HTML page (htmlOk).
run(extractOk, narr, htmlOk) ==
  IF ~extractOk THEN Raised
  ELSE LET llm_response == analyze_document_changes(narr)
       IN IF llm_response.raised THEN Raised
          ELSE IF ~htmlOk THEN Raised
          ELSE Returned(llm_response.value)

\* The uploads of one analysis request: are both file names *.pdf, does
\* text extraction, diffing and formatting succeed, what does the
\* summarization service reply, can the HTML page be written.  A stage that
\* is never reached has one value only.
ReachedInputs(in) ==
  /\ (~in.pdf) => in.extractOk
  /\ (~in.pdf \/ ~in.extractOk) => in.narr = [kind |-> "error", text |-> EmptyStr]
  /\ (in.narr.kind # "text") => in.htmlOk
AnalyzeInputs ==
  {in \in [pdf : BOOLEAN, extractOk : BOOLEAN, narr : NarrationReplies, htmlOk : BOOLEAN] :
     ReachedInputs(in)}

\* ------------------------------------------------------ /analyze-and-chat/
\* bug: the new analysis re-seeds every session of the registry
SeededRegistry_all(sid, template) ==
  [s \in Sessions \cup {sid} |-> ChatBot(template)]
\* bug: chatbot_sessions.setdefault(session_id, ChatBot(template))
SeededRegistry_keep(sid, template) ==
  IF sid \in Sessions THEN chatbot_sessions ELSE Put(chatbot_sessions, sid, ChatBot(template))
\* main.py:187
SeededRegistry(sid, template) == Put(chatbot_sessions, sid, ChatBot(template))

analyze_documents_and_start_chat(sid, pdf, extractOk, narr, htmlOk) ==
  /\ LoopFree
  /\ LET result == run(extractOk, narr, htmlOk)
         template == default_chat_template(result.value)
         ext == IF pdf /\ extractOk THEN NarrationExt(narr) ELSE "none"
         out(status, body, after, afterAnalysis) ==
           Response("analyze_chat", status, PathReq(sid), 0, ext, body, <<>>,
                    chatbot_sessions, analysis, after, afterAnalysis)
     IN /\ IF ~pdf
           THEN \* main.py:159-163
                /\ resp' = out(400, EmptyStr, chatbot_sessions, analysis)
                /\ UNCHANGED <<chatbot_sessions, analysis>>
           ELSE IF result.raised
           THEN \* main.py:198-201
                /\ resp' = out(500, EmptyStr, chatbot_sessions, analysis)
                /\ UNCHANGED <<chatbot_sessions, analysis>>
           ELSE IF ~Truthy(template)
           THEN \* main.py:182-184, after the assignment of main.py:178
                /\ analysis' = result.value
                /\ resp' = out(500, EmptyStr, chatbot_sessions, result.value)
                /\ UNCHANGED chatbot_sessions
           ELSE /\ analysis' = result.value
                /\ chatbot_sessions' = SeededRegistry(sid, template)
                /\ resp' = out(200, result.value, SeededRegistry(sid, template), result.value)
        /\ UNCHANGED <<pending, running, nchat>>
  /\ UNCHANGED dvars

\* ------------------------------------------------------------------- Next
\* ---------------------------------------------------- /analyze-documents/
\* The uploads of one /analyze-documents/ request.  The handler answers 500
\* for every failure of run, so one failure of the narration stands for the
\* failures after extraction.
DocumentInputs ==
  {in \in AnalyzeInputs : in.htmlOk /\ in.narr.kind # "missing"}
\* bug: the handler declares `global analysis`
LocalAnalysis_global(value) == value
\* main.py:71: `analysis` is a local name of the handler (no global
\* declaration), the module-level analysis keeps its value
LocalAnalysis(value) == analysis

analyze_documents(pdf, extractOk, narr, htmlOk) ==
  /\ LoopFree
  /\ LET result == run(extractOk, narr, htmlOk)
         ext == IF pdf /\ extractOk THEN NarrationExt(narr) ELSE "none"
         ok == pdf /\ ~result.raised
         \* main.py:52-56, 80-83, 73-78
         status == IF ~pdf THEN 400 ELSE IF result.raised THEN 500 ELSE 200
         stored == IF ok THEN LocalAnalysis(result.value) ELSE analysis
     IN /\ analysis' = stored
        /\ resp' = Response("analyze", status, NoReq, 0, ext,
                            IF ok THEN result.value ELSE EmptyStr, <<>>,
                            chatbot_sessions, analysis, chatbot_sessions, stored)
        /\ UNCHANGED <<chatbot_sessions, pending, running, nchat>>
  /\ UNCHANGED dvars
Next ==
  \/ \E req \in ChatRequest : ReceiveChat(req)
  \/ \E i \in 1..MaxPending : ChatStart(i)
  \/ \E h \in running, outcome \in ChatOutcomes : ChatFinish(h, outcome)
  \/ \E sid \in SessionIds : clear_chat_session(sid)
  \/ \E sid \in SessionIds : get_chat_history(sid)
  \/ \E sid \in SessionIds, in \in AnalyzeInputs :
       analyze_documents_and_start_chat(sid, in.pdf, in.extractOk, in.narr, in.htmlOk)
  \/ \E in \in DocumentInputs :
       analyze_documents(in.pdf, in.extractOk, in.narr, in.htmlOk)

Spec == Init /\ [][Next]_vars

\* --------------------------------------------------------- the Streamlit UI
\* app.py:20-21: the identifier of one browser session (a uuid4 string)
StSessionId == "s1"
\* main.py:154
DefaultSessionId == "default"
\* main.py:151-155: session_id is declared as a plain `str = "default"` beside
\* the File(...) parameters, without Form(...), so FastAPI binds it from the
\* query string; a multipart form field of that name is not read.
BoundSessionId(query, form) ==
  IF query # None THEN query[1] ELSE DefaultSessionId

\* app.py:35-52: the two uploads are sent as original.pdf and modified.pdf,
\* with the identifier as a form field (data=) and no query string
UIAnalyze(in) ==
  /\ in.pdf
  /\ analyze_documents_and_start_chat(BoundSessionId(None, Some(StSessionId)),
                                      in.pdf, in.extractOk, in.narr, in.htmlOk)
\* app.py:252-258 and 54-68: the chat box is shown once an analysis has
\* succeeded; the JSON body carries message and session_id only
UISend(message) ==
  /\ DefaultSessionId \in Sessions
  /\ ReceiveChat([session_id |-> StSessionId, message |-> message, system_prompt |-> None])
\* app.py:70-80 and 109-112
UIClear == clear_chat_session(StSessionId)

UINext ==
  \/ \E in \in AnalyzeInputs : UIAnalyze(in)
  \/ \E message \in Messages : UISend(message)
  \/ \E i \in 1..MaxPending : ChatStart(i)
  \/ \E h \in running, outcome \in ChatOutcomes : ChatFinish(h, outcome)
  \/ UIClear

SpecUI == Init /\ [][UINext]_vars
TypeOK ==
  /\ Sessions \subseteq SessionIds
  /\ Len(pending) <= MaxPending
  /\ nchat <= MaxChats

\* =================================================== DocumentAnalysis.run
\* A text is a sequence of characters, a line a sequence of characters
\* without a line break.
MaxLines == 3          \* lines of an extracted text
LineBreak == "\n"
LineSet == {<<"A">>, <<"B">>, <<"C">>, <<"X">>}

\* str.splitlines(): the pieces between line breaks; a break at the very end
\* opens no further line, and the empty text has no line.
RECURSIVE splitlines(_)
splitlines(text) ==
  IF text = <<>> THEN <<>>
  ELSE LET brk == {k \in 1..Len(text) : text[k] = LineBreak}
           k == IF brk = {} THEN Len(text) + 1
                ELSE CHOOSE x \in brk : \A y \in brk : x <= y
       IN <<SubSeq(text, 1, k - 1)>> \o splitlines(SubSeq(text, k + 1, Len(text)))

\* ---- difflib.SequenceMatcher(None, a_lines, b_lines), autojunk left on
\* Indices are Python's: 0-based, ranges half-open; el(s, i) is s[i].
el(s, i) == s[i + 1]
Slice(s, lo, hi) == SubSeq(s, lo + 1, hi)

AutoJunkMinLen == 200
Count(s, x) == Cardinality({k \in 1..Len(s) : s[k] = x})
\* __chain_b: with 200 lines or more in b, a line that makes up more than 1%
\* of them (+1) is "popular" and starts no match
Popular(b_lines) ==
  IF Len(b_lines) >= AutoJunkMinLen
  THEN {b_lines[k] : k \in {k \in 1..Len(b_lines) :
                              Count(b_lines, b_lines[k]) > (Len(b_lines) \div 100) + 1}}
  ELSE {}

\* k of find_longest_match: the length of the common run that ends at a[i],
\* b[j], inside a[alo:], b[blo:], made of lines that b2j holds
RECURSIVE RunLen(_, _, _, _, _, _)
RunLen(a_lines, b_lines, alo, blo, i, j) ==
  IF i < alo \/ j < blo THEN 0
  ELSE IF el(a_lines, i) # el(b_lines, j) \/ el(b_lines, j) \in Popular(b_lines) THEN 0
  ELSE 1 + RunLen(a_lines, b_lines, alo, blo, i - 1, j - 1)

Block(i, j, size) == [i |-> i, j |-> j, size |-> size]

\* the two extension loops of find_longest_match (there is no junk)
RECURSIVE ExtendBack(_, _, _, _, _)
ExtendBack(a_lines, b_lines, alo, blo, m) ==
  IF m.i > alo /\ m.j > blo /\ el(a_lines, m.i - 1) = el(b_lines, m.j - 1)
  THEN ExtendBack(a_lines, b_lines, alo, blo, Block(m.i - 1, m.j - 1, m.size + 1))
  ELSE m
RECURSIVE ExtendForward(_, _, _, _, _)
ExtendForward(a_lines, b_lines, ahi, bhi, m) ==
  IF m.i + m.size < ahi /\ m.j + m.size < bhi
       /\ el(a_lines, m.i + m.size) = el(b_lines, m.j + m.size)
  THEN ExtendForward(a_lines, b_lines, ahi, bhi, Block(m.i, m.j, m.size + 1))
  ELSE m

\* find_longest_match: the first pair (i ascending, then j ascending) at
\* which k exceeds every k seen before, then the extensions
find_longest_match(a_lines, b_lines, alo, ahi, blo, bhi) ==
  LET ends == (alo..(ahi - 1)) \X (blo..(bhi - 1))
      k(e) == RunLen(a_lines, b_lines, alo, blo, e[1], e[2])
      hits == {e \in ends : k(e) > 0}
      Earlier(e, f) == e[1] < f[1] \/ (e[1] = f[1] /\ e[2] <= f[2])
      best == CHOOSE e \in hits :
                \A f \in hits : k(e) > k(f) \/ (k(e) = k(f) /\ Earlier(e, f))
      found == IF hits = {} THEN Block(alo, blo, 0)
               ELSE Block(best[1] - k(best) + 1, best[2] - k(best) + 1, k(best))
  IN ExtendForward(a_lines, b_lines, ahi, bhi,
                   ExtendBack(a_lines, b_lines, alo, blo, found))

\* get_matching_blocks, before the sentinel: the longest match of the range,
\* then the ranges left and right of it, in increasing order
RECURSIVE MatchingBlocks(_, _, _, _, _, _)
MatchingBlocks(a_lines, b_lines, alo, ahi, blo, bhi) ==
  LET m == find_longest_match(a_lines, b_lines, alo, ahi, blo, bhi)
  IN IF m.size = 0 THEN <<>>
     ELSE (IF alo < m.i /\ blo < m.j
           THEN MatchingBlocks(a_lines, b_lines, alo, m.i, blo, m.j) ELSE <<>>)
          \o <<m>>
          \o (IF m.i + m.size < ahi /\ m.j + m.size < bhi
              THEN MatchingBlocks(a_lines, b_lines, m.i + m.size, ahi, m.j + m.size, bhi)
              ELSE <<>>)

\* adjacent blocks are merged, and the sentinel (la, lb, 0) closes the list
RECURSIVE Collapse(_, _)
Collapse(blocks, cur) ==
  IF blocks = <<>> THEN (IF cur.size > 0 THEN <<cur>> ELSE <<>>)
  ELSE LET m == Head(blocks)
       IN IF cur.i + cur.size = m.i /\ cur.j + cur.size = m.j
          THEN Collapse(Tail(blocks), Block(cur.i, cur.j, cur.size + m.size))
          ELSE (IF cur.size > 0 THEN <<cur>> ELSE <<>>) \o Collapse(Tail(blocks), m)
get_matching_blocks(a_lines, b_lines) ==
  Collapse(MatchingBlocks(a_lines, b_lines, 0, Len(a_lines), 0, Len(b_lines)),
           Block(0, 0, 0))
    \o <<Block(Len(a_lines), Len(b_lines), 0)>>

Opcode(tag, i1, i2, j1, j2) == [tag |-> tag, i1 |-> i1, i2 |-> i2, j1 |-> j1, j2 |-> j2]
\* get_opcodes: what lies between two matching blocks, then the block
RECURSIVE OpcodesFrom(_, _, _)
OpcodesFrom(blocks, i, j) ==
  IF blocks = <<>> THEN <<>>
  ELSE LET m == Head(blocks)
           tag == IF i < m.i /\ j < m.j THEN "replace"
                  ELSE IF i < m.i THEN "delete"
                  ELSE IF j < m.j THEN "insert"
                  ELSE ""
       IN (IF tag # "" THEN <<Opcode(tag, i, m.i, j, m.j)>> ELSE <<>>)
          \o (IF m.size > 0
              THEN <<Opcode("equal", m.i, m.i + m.size, m.j, m.j + m.size)>> ELSE <<>>)
          \o OpcodesFrom(Tail(blocks), m.i + m.size, m.j + m.size)
get_opcodes(a_lines, b_lines) == OpcodesFrom(get_matching_blocks(a_lines, b_lines), 0, 0)

\* ---- extract_text_diffs (document_analysis.py:42-75)
\* bug: the opcodes are asked for only when both texts have lines
Opcodes_guarded(a_lines, b_lines) ==
  IF a_lines = <<>> \/ b_lines = <<>> THEN <<>> ELSE get_opcodes(a_lines, b_lines)
\* document_analysis.py:57-60
Opcodes(a_lines, b_lines) == get_opcodes(a_lines, b_lines)
\* bug: the unchanged sections are kept
KeepOpcode_all(tag) == TRUE
\* document_analysis.py:61-62
KeepOpcode(tag) == tag # "equal"
\* bug: a_lines[i1:i2 + 1]
OriginalLines_wide(a_lines, i1, i2) ==
  SubSeq(a_lines, i1 + 1, IF i2 + 1 <= Len(a_lines) THEN i2 + 1 ELSE Len(a_lines))
\* document_analysis.py:66
OriginalLines(a_lines, i1, i2) == Slice(a_lines, i1, i2)
\* bug: b_lines[j1:j2 - 1]
NewLines_short(b_lines, j1, j2) == Slice(b_lines, j1, j2 - 1)
\* document_analysis.py:67
NewLines(b_lines, j1, j2) == Slice(b_lines, j1, j2)
\* bug: the end of the range is reported exclusive, (i1 + 1, i2 + 1)
LineNumbers_exclusive(lo, hi) == <<lo + 1, hi + 1>>
\* bug: the 0-based start is reported
LineNumbers_zero_based(lo, hi) == <<lo, hi>>
\* document_analysis.py:68-69
LineNumbers(lo, hi) == <<lo + 1, hi>>
\* bug: new_line_numbers is given the original range
DiffRecord_original_range(op, a_lines, b_lines) ==
  [type |-> op.tag,
   original_lines |-> OriginalLines(a_lines, op.i1, op.i2),
   new_lines |-> NewLines(b_lines, op.j1, op.j2),
   original_line_numbers |-> LineNumbers(op.i1, op.i2),
   new_line_numbers |-> LineNumbers(op.i1, op.i2)]
\* document_analysis.py:64-70
DiffRecord(op, a_lines, b_lines) ==
  [type |-> op.tag,
   original_lines |-> OriginalLines(a_lines, op.i1, op.i2),
   new_lines |-> NewLines(b_lines, op.j1, op.j2),
   original_line_numbers |-> LineNumbers(op.i1, op.i2),
   new_line_numbers |-> LineNumbers(op.j1, op.j2)]
\* bug: diffs.insert(0, ...)
AppendDiff_front(diffs, rec) == <<rec>> \o diffs
\* document_analysis.py:64
AppendDiff(diffs, rec) == Append(diffs, rec)

RECURSIVE CollectDiffs(_, _, _, _)
CollectDiffs(ops, a_lines, b_lines, diffs) ==
  IF ops = <<>> THEN diffs
  ELSE CollectDiffs(Tail(ops), a_lines, b_lines,
                    IF KeepOpcode(Head(ops).tag)
                    THEN AppendDiff(diffs, DiffRecord(Head(ops), a_lines, b_lines))
                    ELSE diffs)

extract_text_diffs(a_text, b_text) ==
  LET a_lines == splitlines(a_text)
      b_lines == splitlines(b_text)
  IN CollectDiffs(Opcodes(a_lines, b_lines), a_lines, b_lines, <<>>)

\* ---- format_text_differences (document_analysis.py:77-111)
Digits == <<"0", "1", "2", "3", "4", "5", "6", "7", "8", "9">>
\* str(n) of an f-string
RECURSIVE Str(_)
Str(n) == IF n < 10 THEN <<Digits[n + 1]>> ELSE Str(n \div 10) \o <<Digits[(n % 10) + 1]>>
\* sep.join(parts)
RECURSIVE Join(_, _)
Join(sep, parts) ==
  IF parts = <<>> THEN <<>>
  ELSE IF Len(parts) = 1 THEN parts[1]
  ELSE parts[1] \o sep \o Join(sep, Tail(parts))

\* the en dash (U+2013) between the two numbers of a range
EnDash == "--"
Range(numbers) == <<"Lines ">> \o Str(numbers[1]) \o <<EnDash>> \o Str(numbers[2])
\* bug: the added lines are reported with the original range
InsertParagraph_original_range(change) ==
  Range(change.original_line_numbers) \o <<" were added:", "\n", "Content: ">>
    \o Join(<<" ">>, change.new_lines) \o <<"\n">>
\* document_analysis.py:102-105
InsertParagraph(change) ==
  Range(change.new_line_numbers) \o <<" were added:", "\n", "Content: ">>
    \o Join(<<" ">>, change.new_lines) \o <<"\n">>
\* bug: no branch for 'insert'
FormatChange_no_insert(change) ==
  IF change.type = "replace"
  THEN <<Range(change.original_line_numbers) \o <<" were modified:", "\n", "Before: ">>
           \o Join(<<" ">>, change.original_lines) \o <<"\n", "After: ">>
           \o Join(<<" ">>, change.new_lines) \o <<"\n">> >>
  ELSE IF change.type = "delete"
  THEN <<Range(change.original_line_numbers) \o <<" were deleted:", "\n", "Content: ">>
           \o Join(<<" ">>, change.original_lines) \o <<"\n">> >>
  ELSE <<>>
\* document_analysis.py:90-105: what one change appends to `formatted`
FormatChange(change) ==
  IF change.type = "replace"
  THEN <<Range(change.original_line_numbers) \o <<" were modified:", "\n", "Before: ">>
           \o Join(<<" ">>, change.original_lines) \o <<"\n", "After: ">>
           \o Join(<<" ">>, change.new_lines) \o <<"\n">> >>
  ELSE IF change.type = "delete"
  THEN <<Range(change.original_line_numbers) \o <<" were deleted:", "\n", "Content: ">>
           \o Join(<<" ">>, change.original_lines) \o <<"\n">> >>
  ELSE IF change.type = "insert"
  THEN <<InsertParagraph(change)>>
  ELSE <<>>

RECURSIVE Formatted(_)
Formatted(diffs) ==
  IF diffs = <<>> THEN <<>> ELSE FormatChange(Head(diffs)) \o Formatted(Tail(diffs))
\* document_analysis.py:107-108
format_text_differences(diffs) == Join(<<"\n">>, Formatted(diffs))

\* ---- the texts of a run, and run() up to the brief
RECURSIVE LineSeqs(_)
LineSeqs(n) ==
  IF n = 0 THEN {<<>>}
  ELSE LineSeqs(n - 1) \cup {Append(ls, l) : ls \in LineSeqs(n - 1), l \in LineSet}
\* extract_text: every piece of page text ends with a line break
RECURSIVE TextOf(_)
TextOf(lines) ==
  IF lines = <<>> THEN <<>> ELSE Head(lines) \o <<LineBreak>> \o TextOf(Tail(lines))
Texts == {TextOf(ls) : ls \in LineSeqs(MaxLines)}

\* document_analysis.py:469
DiffInit ==
  /\ chatbot_sessions = EmptyRegistry
  /\ analysis = EmptyStr
  /\ pending = <<>>
  /\ running = {}
  /\ nchat = 0
  /\ resp = NoResp
  /\ original_text \in Texts
  /\ modified_text \in Texts
  /\ differences = <<>>
  /\ llm_input = EmptyStr
  /\ pc = "extracted"

\* document_analysis.py:470
RunDiffs ==
  /\ pc = "extracted"
  /\ differences' = extract_text_diffs(original_text, modified_text)
  /\ pc' = "diffed"
  /\ UNCHANGED <<original_text, modified_text, llm_input>>
  /\ UNCHANGED svars

\* document_analysis.py:471
RunFormat ==
  /\ pc = "diffed"
  /\ llm_input' = format_text_differences(differences)
  /\ pc' = "formatted"
  /\ UNCHANGED <<original_text, modified_text, differences>>
  /\ UNCHANGED svars

DiffNext == RunDiffs \/ RunFormat

SpecDiff == DiffInit /\ [][DiffNext]_vars

\* ============================================================== claims
RespSid == resp.req.session_id
Existed == RespSid \in DOMAIN resp.before
Overrides == TruthyOpt(resp.req.system_prompt)
\* the text a default prompt embeds after "Context:"
IsDefaultPrompt(p) ==
  /\ Len(p) >= Len(TemplatePrefix) + Len(TemplateSuffix)
  /\ SubSeq(p, 1, Len(TemplatePrefix)) = TemplatePrefix
  /\ SubSeq(p, Len(p) - Len(TemplateSuffix) + 1, Len(p)) = TemplateSuffix
EmbeddedAnalysis(p) == SubSeq(p, Len(TemplatePrefix) + 1, Len(p) - Len(TemplateSuffix))
IsPrefix(a, b) == Len(a) <= Len(b) /\ SubSeq(b, 1, Len(a)) = a
HistoryBefore == IF Existed THEN resp.before[RespSid].history ELSE <<>>
UserTurn == Turn("user", resp.req.message, resp.n)
AssistantTurn == Turn("assistant", resp.body, resp.n)
\* the handler reached the external conversational call
Answered == resp.op = "chat" /\ resp.ext \in ChatOutcomes

C2_HistoryGrowth ==
  Answered =>
    /\ RespSid \in DOMAIN resp.after
    /\ (resp.status = 200) =>
          resp.after[RespSid].history = HistoryBefore \o <<UserTurn, AssistantTurn>>
    /\ (resp.status # 200) =>
          resp.after[RespSid].history = HistoryBefore \o <<UserTurn>>
    /\ (resp.status = 200) <=> (resp.ext = "text")

\* a failed turn that follows an answered one
C2_Witness ==
  /\ Answered /\ resp.status # 200
  /\ Len(HistoryBefore) = 2
  /\ Len(resp.after[RespSid].history) = 3

\* C3: the histories are sequences of whole turns in arrival order: at most
\* one handler is between its User append and its Assistant append, an
\* Assistant turn directly follows the User turn of its own request, and the
\* requests appear in the order in which their handlers started.
WholeTurns(h) ==
  /\ \A i \in 1..Len(h) :
        h[i].role = "assistant" =>
          i > 1 /\ h[i - 1].role = "user" /\ h[i - 1].req = h[i].req
  /\ \A i, j \in 1..Len(h) :
        (i < j /\ h[i].role = "user" /\ h[j].role = "user") => h[i].req < h[j].req
  /\ \A i, j \in 1..Len(h) : i < j => h[i].req <= h[j].req
C3_Serialized ==
  /\ Cardinality(running) <= 1
  /\ \A sid \in Sessions : WholeTurns(chatbot_sessions[sid].history)
  /\ \A h \in running :
        /\ h.req.session_id \in Sessions
        /\ LET hist == chatbot_sessions[h.req.session_id].history
           IN hist # <<>> /\ hist[Len(hist)] = Turn("user", h.req.message, h.n)

\* two /chat/ requests for one session in flight: one waits for the external
\* call, the other for the event loop
C3_Witness ==
  \E h \in running : \E i \in 1..Len(pending) :
    /\ pending[i].session_id = h.req.session_id
    /\ chatbot_sessions[h.req.session_id].history # <<>>

\* C4: a clear of a registered identifier empties the history, keeps the
\* active system prompt and the identifier, and touches no other session; a
\* /chat/ or /chat/history/ for a registered identifier is not NotFound and
\* works on the session that is there.
C4_Clear ==
  /\ (resp.op = "clear" /\ Existed) =>
        /\ resp.status = 200
        /\ DOMAIN resp.after = DOMAIN resp.before
        /\ resp.after[RespSid].history = <<>>
        /\ resp.after[RespSid].system_prompt = resp.before[RespSid].system_prompt
        /\ \A s \in DOMAIN resp.before : s # RespSid => resp.after[s] = resp.before[s]
        /\ resp.afterAnalysis = resp.beforeAnalysis
  /\ (resp.op = "history" /\ Existed) =>
        /\ resp.status = 200
        /\ resp.history = resp.before[RespSid].history
        /\ resp.after = resp.before
  /\ (resp.op = "chat" /\ Existed) => resp.status # 404

\* a clear of a session that had turns and an overridden prompt
C4_Witness ==
  /\ resp.op = "clear" /\ resp.status = 200
  /\ resp.before[RespSid].history # <<>>
  /\ ~IsDefaultPrompt(resp.before[RespSid].system_prompt)
  /\ resp.after[RespSid].history = <<>>

\* C5: a clear or a history lookup of an identifier the registry does not
\* hold answers 404 and changes neither the registry nor the stored analysis.
C5_NotFound ==
  (resp.op \in {"clear", "history"} /\ ~Existed) =>
    /\ resp.status = 404
    /\ resp.after = resp.before
    /\ resp.afterAnalysis = resp.beforeAnalysis

\* a 404 while the registry holds another session
C5_Witness ==
  /\ resp.op \in {"clear", "history"} /\ resp.status = 404
  /\ resp.before # EmptyRegistry
  /\ chatbot_sessions = resp.before

\* C6: a /chat/ request never succeeds with an empty assistant message: an
\* empty answer of the conversational service ends in a failure outcome.
C6_NoEmptyAnswer ==
  resp.op = "chat" =>
    /\ (resp.status = 200) => (resp.body # EmptyStr /\ resp.ext = "text")
    /\ (resp.ext = "empty") => resp.status = 500

\* a turn whose external call returned the empty answer
C6_Witness ==
  /\ resp.op = "chat" /\ resp.ext = "empty" /\ resp.status = 500
  /\ RespSid \in Sessions
  /\ chatbot_sessions[RespSid].history = HistoryBefore \o <<UserTurn>>

\* C7 (as stated): an empty or missing response of the summarization service
\* makes the analysis request fail: no success status, no stored analysis,
\* no session seeded.
C7_NarrationNeverEmpty ==
  (resp.op = "analyze_chat" /\ resp.ext \in {"empty", "missing"}) =>
    /\ resp.status # 200
    /\ resp.afterAnalysis = resp.beforeAnalysis
    /\ resp.after = resp.before

\* C8: no request other than a successful /analyze-and-chat/ for s or a
\* /chat/ for s with a system_prompt override changes the active system
\* prompt of a registered session s - chat turns without override, clears,
\* history lookups and the analyses and creations of other sessions leave it
\* (and the analysis text it embeds) as it was.
Reseeds(s) == resp.op = "analyze_chat" /\ RespSid = s /\ resp.status = 200
OverridesPrompt(s) == resp.op = "chat" /\ RespSid = s /\ Overrides
C8_GroundingFixed ==
  \A s \in DOMAIN resp.before :
    (~Reseeds(s) /\ ~OverridesPrompt(s)) =>
      /\ s \in DOMAIN resp.after
      /\ resp.after[s].system_prompt = resp.before[s].system_prompt
      /\ IsDefaultPrompt(resp.before[s].system_prompt) =>
            EmbeddedAnalysis(resp.after[s].system_prompt) =
              EmbeddedAnalysis(resp.before[s].system_prompt)

\* an analysis for one session done while another session is grounded in an
\* earlier, different analysis, which it keeps
C8_Witness ==
  /\ resp.op = "analyze_chat" /\ resp.status = 200
  /\ \E s \in DOMAIN resp.before :
        /\ s # RespSid
        /\ IsDefaultPrompt(resp.before[s].system_prompt)
        /\ resp.before[s].history # <<>>
        /\ s \in Sessions
        /\ EmbeddedAnalysis(chatbot_sessions[s].system_prompt) # analysis
        /\ EmbeddedAnalysis(chatbot_sessions[s].system_prompt) # EmptyStr

\* C9: a (non-empty) system_prompt on a /chat/ for a registered session makes
\* exactly that prompt the active one, whether or not the turn is answered,
\* and adds nothing to the history but the turn of the request itself; a
\* later /chat/ without override keeps the prompt in force.
OwnTurns(h) == \A i \in 1..Len(h) : h[i].req = resp.n
C9_Override ==
  /\ (Answered /\ Existed /\ Overrides) =>
        /\ resp.after[RespSid].system_prompt = resp.req.system_prompt[1]
        /\ IsPrefix(HistoryBefore, resp.after[RespSid].history)
        /\ OwnTurns(SubSeq(resp.after[RespSid].history, Len(HistoryBefore) + 1,
                            Len(resp.after[RespSid].history)))
  /\ (Answered /\ Existed /\ ~Overrides) =>
        resp.after[RespSid].system_prompt = resp.before[RespSid].system_prompt

\* an override on a session that had turns under another prompt
C9_Witness ==
  /\ Answered /\ Existed /\ Overrides /\ resp.status = 200
  /\ resp.before[RespSid].history # <<>>
  /\ resp.before[RespSid].system_prompt # resp.req.system_prompt[1]
  /\ resp.after[RespSid].system_prompt = resp.req.system_prompt[1]

\* C10: the first /chat/ for an identifier the registry does not hold creates
\* the session - with the request's (non-empty) system_prompt, else with the
\* default template of the stored analysis, the empty one included - and
\* processes the turn; it is never NotFound.
C10_LazyCreate ==
  (resp.op = "chat" /\ ~Existed) =>
    /\ resp.status # 404
    /\ resp.ext \in ChatOutcomes
    /\ RespSid \in DOMAIN resp.after
    /\ resp.after[RespSid].system_prompt =
         (IF Overrides THEN resp.req.system_prompt[1]
          ELSE TemplatePrefix \o resp.beforeAnalysis \o TemplateSuffix)
    /\ resp.after[RespSid].history # <<>>
    /\ resp.after[RespSid].history[1] = UserTurn
    /\ \A s \in DOMAIN resp.before : resp.after[s] = resp.before[s]

\* an answered first /chat/ without system_prompt before any analysis
C10_Witness ==
  /\ resp.op = "chat" /\ ~Existed /\ resp.status = 200
  /\ resp.req.system_prompt = None
  /\ resp.beforeAnalysis = EmptyStr
  /\ resp.after[RespSid].system_prompt = TemplatePrefix \o TemplateSuffix

\* ------------------------------------------- claims on the change records
ALines == splitlines(original_text)
BLines == splitlines(modified_text)
Extracted == pc \in {"diffed", "formatted"}
\* the half-open 0-based spans behind the reported 1-indexed ranges
OStart(r) == r.original_line_numbers[1] - 1
OEnd(r) == r.original_line_numbers[2]
NStart(r) == r.new_line_numbers[1] - 1
NEnd(r) == r.new_line_numbers[2]

\* C11: the extractor returns no record for two identical texts.
C11_IdenticalNoRecords ==
  (Extracted /\ original_text = modified_text) => differences = <<>>

\* identical texts of three lines, one line occurring twice
C11_Witness ==
  /\ Extracted /\ original_text = modified_text
  /\ Len(ALines) = 3 /\ ALines[1] = ALines[3] /\ ALines[1] # ALines[2]
  /\ differences = <<>>

\* C12: the records come in strictly increasing order of the start of their
\* original span, and no two of them overlap in the original lines or in the
\* modified lines.
C12_OrderedDisjoint ==
  Extracted =>
    \A m, n \in 1..Len(differences) :
      m < n =>
        /\ OStart(differences[m]) < OStart(differences[n])
        /\ OEnd(differences[m]) <= OStart(differences[n])
        /\ NEnd(differences[m]) <= NStart(differences[n])

\* two records, the later one an insertion
C12_Witness ==
  /\ Extracted /\ Len(differences) = 2
  /\ differences[2].type = "insert"
  /\ OStart(differences[1]) < OStart(differences[2])

\* C13: every record is a replace, a delete or an insert; a replace has
\* original and new lines, a delete original lines only, an insert new lines
\* only.
C13_Kinds ==
  Extracted =>
    \A n \in 1..Len(differences) :
      LET r == differences[n]
      IN /\ r.type \in {"replace", "delete", "insert"}
         /\ r.type = "replace" => r.original_lines # <<>> /\ r.new_lines # <<>>
         /\ r.type = "delete" => r.original_lines # <<>> /\ r.new_lines = <<>>
         /\ r.type = "insert" => r.original_lines = <<>> /\ r.new_lines # <<>>

\* an insert before the last original line and a delete in one result
C13_Witness ==
  /\ Extracted
  /\ \E m, n \in 1..Len(differences) :
       /\ differences[m].type = "insert" /\ OEnd(differences[m]) < Len(ALines)
       /\ differences[n].type = "delete"

\* C14: walking the original lines and putting each record's original_lines
\* at its original span gives the original lines; putting its new_lines there
\* gives the modified lines; the lines between the spans are the same lines
\* in both texts.
RECURSIVE Patch(_, _, _)
Patch(recs, pos, useNew) ==
  IF recs = <<>> THEN Slice(ALines, pos, Len(ALines))
  ELSE LET r == Head(recs)
       IN Slice(ALines, pos, OStart(r))
          \o (IF useNew THEN r.new_lines ELSE r.original_lines)
          \o Patch(Tail(recs), OEnd(r), useNew)
RECURSIVE SameGaps(_, _, _)
SameGaps(recs, apos, bpos) ==
  IF recs = <<>>
  THEN Slice(ALines, apos, Len(ALines)) = Slice(BLines, bpos, Len(BLines))
  ELSE LET r == Head(recs)
       IN /\ apos <= OStart(r) /\ bpos <= NStart(r)
          /\ Slice(ALines, apos, OStart(r)) = Slice(BLines, bpos, NStart(r))
          /\ SameGaps(Tail(recs), OEnd(r), NEnd(r))
C14_RoundTrip ==
  Extracted =>
    /\ Patch(differences, 0, FALSE) = ALines
    /\ Patch(differences, 0, TRUE) = BLines
    /\ SameGaps(differences, 0, 0)

\* a replacement between two unchanged lines
C14_Witness ==
  /\ Extracted /\ Len(differences) = 1
  /\ differences[1].type = "replace"
  /\ OStart(differences[1]) = 1 /\ OEnd(differences[1]) = 2
  /\ Len(ALines) = 3 /\ Len(BLines) = 3

\* C15: two empty texts give no record; an empty original and a non-empty
\* modified text give one insert of all modified lines; a non-empty original
\* and an empty modified text give one delete of all original lines.
C15_EmptyInputs ==
  Extracted =>
    /\ (original_text = <<>> /\ modified_text = <<>>) => differences = <<>>
    /\ (original_text = <<>> /\ modified_text # <<>>) =>
         /\ Len(differences) = 1
         /\ differences[1].type = "insert"
         /\ differences[1].original_lines = <<>>
         /\ differences[1].new_lines = BLines
         /\ BLines # <<>>
    /\ (original_text # <<>> /\ modified_text = <<>>) =>
         /\ Len(differences) = 1
         /\ differences[1].type = "delete"
         /\ differences[1].new_lines = <<>>
         /\ differences[1].original_lines = ALines
         /\ ALines # <<>>

\* an empty original against a modified text of two lines
C15_Witness ==
  /\ Extracted /\ original_text = <<>> /\ Len(BLines) = 2
  /\ Len(differences) = 1 /\ differences[1].new_lines = BLines

\* the modified text is the original with only line k replaced, by a line
\* that occurs nowhere else in either text
SingleLineChange(k) ==
  /\ Len(ALines) = Len(BLines)
  /\ k \in 1..Len(ALines)
  /\ ALines[k] # BLines[k]
  /\ \A n \in 1..Len(ALines) :
       /\ n # k => ALines[n] = BLines[n]
       /\ ALines[n] # BLines[k]
OneReplaceAt(k) ==
  differences = << [type |-> "replace",
                    original_lines |-> <<ALines[k]>>,
                    new_lines |-> <<BLines[k]>>,
                    original_line_numbers |-> <<k, k>>,
                    new_line_numbers |-> <<k, k>>] >>
NoRepeatedLine(lines) ==
  \A m, n \in 1..Len(lines) : lines[m] = lines[n] => m = n

\* C16 as stated: replacing the single line k by a line that occurs nowhere
\* else gives exactly one replace record with both ranges (k, k).
C16_SingleReplace ==
  Extracted =>
    \A k \in 1..MaxLines + 1 : SingleLineChange(k) => OneReplaceAt(k)

\* C16: when no line occurs twice in the original, replacing the single line
\* k by a line that occurs nowhere else gives exactly one replace record with
\* both ranges (k, k).
C16_SingleReplaceDistinct ==
  Extracted =>
    \A k \in 1..MaxLines + 1 :
      (SingleLineChange(k) /\ NoRepeatedLine(ALines)) => OneReplaceAt(k)

\* the middle of three distinct lines replaced
C16_Witness ==
  /\ Extracted /\ Len(ALines) = 3
  /\ SingleLineChange(2) /\ NoRepeatedLine(ALines)
  /\ OneReplaceAt(2)

\* the modified text is the n original lines followed by m >= 1 lines none of
\* which occurs in the original
Appended(n, m) ==
  /\ Len(ALines) = n /\ Len(BLines) = n + m
  /\ Slice(BLines, 0, n) = ALines
  /\ \A j \in n + 1..n + m : \A i \in 1..n : BLines[j] # ALines[i]

\* C17: appending m lines that do not occur in the n original lines gives
\* exactly one insert record, with modified range (n + 1, n + m), the
\* appended lines as new_lines and no original_lines.
C17_Append ==
  Extracted =>
    \A n \in 0..MaxLines + 1 : \A m \in 1..MaxLines + 1 :
      Appended(n, m) =>
        /\ Len(differences) = 1
        /\ differences[1].type = "insert"
        /\ differences[1].new_line_numbers = <<n + 1, n + m>>
        /\ differences[1].new_lines = Slice(BLines, n, n + m)
        /\ differences[1].original_lines = <<>>

\* one line appended to two original lines
C17_Witness ==
  /\ Extracted /\ Appended(2, 1)
  /\ Len(differences) = 1
  /\ differences[1].new_line_numbers = <<3, 3>>

\* ------------------------------------------------- claims on the brief
\* the paragraphs of a brief: each ends with its own line break and is
\* separated from the next by one more line break
RECURSIVE Paragraphs(_)
Paragraphs(brief) ==
  IF brief = <<>> THEN <<>>
  ELSE LET cuts == {n \in 1..Len(brief) - 1 :
                      brief[n] = LineBreak /\ brief[n + 1] = LineBreak}
       IN IF cuts = {} THEN <<brief>>
          ELSE LET n == CHOOSE c \in cuts : \A d \in cuts : c <= d
               IN <<SubSeq(brief, 1, n)>>
                  \o Paragraphs(SubSeq(brief, n + 2, Len(brief)))

\* C18: the brief has one paragraph per record, and it is the empty string
\* exactly when there is no record.
C18_OneParagraphPerRecord ==
  pc = "formatted" =>
    /\ Len(Paragraphs(llm_input)) = Len(differences)
    /\ llm_input = <<>> <=> differences = <<>>

\* a brief of two paragraphs, one of them for an insert
C18_Witness ==
  /\ pc = "formatted" /\ Len(differences) = 2
  /\ \E n \in 1..2 : differences[n].type = "insert"
  /\ Len(Paragraphs(llm_input)) = 2

\* reading a paragraph back: its text lines, and the range of its header
RECURSIVE TextLines(_)
TextLines(p) ==
  IF p = <<>> THEN <<>>
  ELSE LET n == CHOOSE c \in 1..Len(p) :
                  p[c] = LineBreak /\ \A d \in 1..c - 1 : p[d] # LineBreak
       IN <<SubSeq(p, 1, n - 1)>> \o TextLines(SubSeq(p, n + 1, Len(p)))
IsDigit(c) == \E d \in 1..10 : Digits[d] = c
DigitValue(c) == (CHOOSE d \in 1..10 : Digits[d] = c) - 1
RECURSIVE ParseNat(_)
ParseNat(ds) ==
  IF ds = <<>> THEN 0
  ELSE 10 * ParseNat(SubSeq(ds, 1, Len(ds) - 1)) + DigitValue(ds[Len(ds)])
\* "Lines <lo>--<hi><verb>": the two numbers and the verb, or a failure
ParseHeader(h) ==
  LET dash == {n \in 1..Len(h) : h[n] = EnDash}
  IN IF Len(h) < 5 \/ h[1] # "Lines " \/ Cardinality(dash) # 1
     THEN [ok |-> FALSE]
     ELSE LET n == CHOOSE c \in dash : TRUE
              lo == SubSeq(h, 2, n - 1)
              hi == SubSeq(h, n + 1, Len(h) - 1)
          IN IF /\ lo # <<>> /\ hi # <<>>
                /\ \A c \in 1..Len(lo) : IsDigit(lo[c])
                /\ \A c \in 1..Len(hi) : IsDigit(hi[c])
             THEN [ok |-> TRUE,
                   range |-> <<ParseNat(lo), ParseNat(hi)>>,
                   verb |-> h[Len(h)]]
             ELSE [ok |-> FALSE]
Spaced(lines) == Join(<<" ">>, lines)
ParagraphFor(p, r) ==
  LET ls == TextLines(p)
      h == ParseHeader(ls[1])
  IN /\ Len(ls) >= 2 /\ h.ok
     /\ r.type = "replace" =>
          /\ h.range = r.original_line_numbers
          /\ h.verb = " were modified:"
          /\ Slice(ALines, h.range[1] - 1, h.range[2]) = r.original_lines
          /\ Len(ls) = 3
          /\ ls[2] = <<"Before: ">> \o Spaced(r.original_lines)
          /\ ls[3] = <<"After: ">> \o Spaced(r.new_lines)
     /\ r.type = "delete" =>
          /\ h.range = r.original_line_numbers
          /\ h.verb = " were deleted:"
          /\ Slice(ALines, h.range[1] - 1, h.range[2]) = r.original_lines
          /\ Len(ls) = 2
          /\ ls[2] = <<"Content: ">> \o Spaced(r.original_lines)
     /\ r.type = "insert" =>
          /\ h.range = r.new_line_numbers
          /\ h.verb = " were added:"
          /\ Slice(BLines, h.range[1] - 1, h.range[2]) = r.new_lines
          /\ Len(ls) = 2
          /\ ls[2] = <<"Content: ">> \o Spaced(r.new_lines)

\* C19: the paragraphs follow the order of the records; the paragraph of a
\* replace or a delete gives the original range and the original lines (a
\* replace also the new lines), the paragraph of an insert gives the modified
\* range and the new lines.
C19_ParagraphContent ==
  pc = "formatted" =>
    LET ps == Paragraphs(llm_input)
    IN /\ Len(ps) = Len(differences)
       /\ \A n \in 1..Len(differences) : ParagraphFor(ps[n], differences[n])

\* an insert whose modified range differs from its original range, after
\* another record
C19_Witness ==
  /\ pc = "formatted" /\ Len(differences) = 2
  /\ differences[2].type = "insert"
  /\ differences[2].new_line_numbers # differences[2].original_line_numbers
  /\ ParagraphFor(Paragraphs(llm_input)[2], differences[2])

\* ------------------------------------------- claims on /analyze-and-chat/
AnalyzeChat == resp.op = "analyze_chat"
Unchanged == resp.after = resp.before /\ resp.afterAnalysis = resp.beforeAnalysis

\* C21: an /analyze-and-chat/ request that fails (not a PDF, or extraction,
\* diffing, formatting, narration or rendering raised) answers with a failure
\* and no analysis, and leaves the registry and the stored analysis as they
\* were; a narration call that failed always makes the request fail.
C21_FailedAnalyzeAllOrNothing ==
  (AnalyzeChat /\ (resp.status # 200 \/ resp.ext \in {"error", "missing"})) =>
    /\ resp.status \in {400, 500}
    /\ resp.body = EmptyStr
    /\ Unchanged

\* a failed narration for a session that exists with a history, after an
\* earlier analysis
C21_Witness ==
  /\ AnalyzeChat /\ resp.status = 500 /\ resp.ext = "error"
  /\ Existed /\ resp.before[RespSid].history # <<>>
  /\ resp.beforeAnalysis # EmptyStr
  /\ Unchanged

\* C22: after a successful /analyze-and-chat/ for s the registry maps s to a
\* session with an empty history whose prompt is the default template of the
\* analysis this request returned, and the stored analysis is that analysis.
C22_SuccessfulAnalyzeSeeds ==
  (AnalyzeChat /\ resp.status = 200) =>
    /\ RespSid \in DOMAIN resp.after
    /\ resp.after[RespSid].history = <<>>
    /\ resp.after[RespSid].system_prompt = default_chat_template(resp.body)
    /\ resp.afterAnalysis = resp.body

\* s had a history and another analysis before the request
C22_Witness ==
  /\ AnalyzeChat /\ resp.status = 200
  /\ Existed /\ resp.before[RespSid].history # <<>>
  /\ resp.beforeAnalysis # EmptyStr /\ resp.body # EmptyStr
  /\ resp.beforeAnalysis # resp.body
  /\ resp.after[RespSid].history = <<>>

\* ------------------------------------------------ claims on outbound calls
\* the User turns request n has put into the history h: ChatBot.chat appends
\* one before each call to the conversational service
CallsOf(h, n) == {i \in 1..Len(h) : h[i].role = "user" /\ h[i].req = n}

\* C23: no request repeats its outbound call.  A /chat/ request has at most
\* one call in any history, and once its call failed or answered nothing the
\* request has failed and has no call in flight; an analysis request whose
\* narration call failed has failed.
C23_NoRetry ==
  /\ \A s \in Sessions : \A n \in 1..nchat :
       Cardinality(CallsOf(chatbot_sessions[s].history, n)) <= 1
  /\ (Answered /\ resp.ext \in {"error", "empty"}) =>
       /\ resp.status = 500
       /\ \A h \in running : h.n # resp.n
       /\ Cardinality(CallsOf(resp.after[RespSid].history, resp.n)) = 1
  /\ (AnalyzeChat /\ resp.ext \in {"error", "missing"}) => resp.status = 500

\* a /chat/ whose call answered nothing, after an analysis whose call failed
C23_Witness ==
  /\ Answered /\ resp.ext = "empty" /\ resp.status = 500
  /\ Cardinality(CallsOf(resp.after[RespSid].history, resp.n)) = 1
  /\ Len(resp.after[RespSid].history) = Len(HistoryBefore) + 1

\* ----------------------------------------------- claims on the registry
\* C24: the registry starts empty, and no step of any request removes a
\* session_id from it.
C24_KeysOnlyGrow ==
  /\ chatbot_sessions = EmptyRegistry
  /\ [][DOMAIN chatbot_sessions \subseteq DOMAIN chatbot_sessions']_vars

\* both identifiers registered, the last request a clear that found its own
C24_Witness ==
  /\ resp.op = "clear" /\ resp.status = 200
  /\ Sessions = SessionIds
  /\ DOMAIN resp.before = SessionIds

\* --------------------------------------- claims on the visual diff page
\* C25 as stated: when extraction, formatting and narration succeeded, the
\* request returns the narrated analysis and seeds the session, whether or
\* not the visual diff page could be produced.
C25_RendererNotADependency ==
  (AnalyzeChat /\ resp.ext = "text") =>
    /\ resp.status = 200
    /\ resp.body # EmptyStr
    /\ RespSid \in DOMAIN resp.after
    /\ resp.after[RespSid].system_prompt = default_chat_template(resp.body)

\* ---------------------------------------------- claims on /analyze-documents/
\* C26: an /analyze-documents/ request, successful or failed, leaves the
\* registry and the stored analysis as they were.
C26_AnalyzeDocumentsNoEffect ==
  resp.op = "analyze" => Unchanged

\* a successful analysis whose result differs from the stored analysis, with
\* a session that has a history
C26_Witness ==
  /\ resp.op = "analyze" /\ resp.status = 200
  /\ resp.body # EmptyStr /\ resp.beforeAnalysis # EmptyStr
  /\ resp.body # resp.beforeAnalysis
  /\ analysis = resp.beforeAnalysis
  /\ \E s \in DOMAIN resp.before : resp.before[s].history # <<>>
  /\ chatbot_sessions = resp.before

\* ------------------------------------------------ claims on lazy creation
LazyDefault == Answered /\ ~Existed /\ ~Overrides
\* C27: the stored analysis is the one returned by the last successful
\* /analyze-and-chat/ of the process, for whatever session_id (no other
\* request changes it, and it starts empty), and a session that /chat/
\* creates for an unseen session_id without a system_prompt gets the default
\* template of that stored analysis.
C27_LazyPromptFromLastAnalysis ==
  /\ (AnalyzeChat /\ resp.status = 200) => resp.afterAnalysis = resp.body
  /\ ~(AnalyzeChat /\ resp.status = 200) => resp.afterAnalysis = resp.beforeAnalysis
  /\ running = {} => analysis = resp.afterAnalysis
  /\ LazyDefault =>
       resp.after[RespSid].system_prompt = default_chat_template(resp.beforeAnalysis)

\* s is created by /chat/ while the registry holds another session only, the
\* one the stored analysis was requested for, and s gets that analysis
C27_Witness ==
  /\ LazyDefault
  /\ resp.beforeAnalysis # EmptyStr
  /\ \E t \in DOMAIN resp.before :
       /\ t # RespSid
       /\ resp.before[t].system_prompt = default_chat_template(resp.beforeAnalysis)
  /\ EmbeddedAnalysis(resp.after[RespSid].system_prompt) = resp.beforeAnalysis

\* C29: when the first /chat/ for an unseen session_id fails in the turn
\* (the call raised or answered nothing), the session it created stays in the
\* registry with the prompt chosen at creation; the registry is left without
\* the identifier only when the request failed before the creation.
C29_LazyCreateNotRolledBack ==
  (resp.op = "chat" /\ ~Existed /\ resp.status = 500) =>
    /\ resp.ext \in {"error", "empty"} =>
         /\ RespSid \in DOMAIN resp.after
         /\ RespSid \in Sessions
         /\ resp.after[RespSid].system_prompt =
              ChosenPrompt(resp.req.system_prompt, resp.beforeAnalysis)
    /\ RespSid \notin DOMAIN resp.after => resp.ext = "none"

\* the first turn for s failed, and s is registered with the default prompt
C29_Witness ==
  /\ resp.op = "chat" /\ ~Existed /\ resp.status = 500 /\ resp.ext = "error"
  /\ ~Overrides
  /\ RespSid \in Sessions
  /\ chatbot_sessions[RespSid].system_prompt = default_chat_template(resp.beforeAnalysis)

\* ------------------------------------------- claims on the printed ranges
\* the lines shown after the label of a content line ("Before: A B")
RenderedLines(line) == Cardinality({k \in 2..Len(line) : line[k] # " "})

\* C30: every range printed in the brief is a non-empty inclusive 1-indexed
\* range inside its document (the original for a replace or a delete, the
\* modified text for an insert), and the paragraph shows as many lines of
\* that document as the range holds.
C30_PrintedRanges ==
  pc = "formatted" =>
    LET ps == Paragraphs(llm_input)
    IN /\ Len(ps) = Len(differences)
       /\ \A n \in 1..Len(ps) :
            LET ls == TextLines(ps[n])
                h == ParseHeader(ls[1])
                r == differences[n]
                doc == IF r.type = "insert" THEN BLines ELSE ALines
                shown == IF r.type = "insert" THEN r.new_lines ELSE r.original_lines
            IN /\ h.ok
               /\ 1 <= h.range[1]
               /\ h.range[1] <= h.range[2]
               /\ h.range[2] <= Len(doc)
               /\ Len(shown) = h.range[2] - h.range[1] + 1
               /\ RenderedLines(ls[2]) = h.range[2] - h.range[1] + 1

\* an insert of two lines, whose unprinted original range is empty, and so
\* is printed with its modified range
C30_Witness ==
  /\ pc = "formatted"
  /\ \E n \in 1..Len(differences) :
       /\ differences[n].type = "insert"
       /\ Len(differences[n].new_lines) = 2
       /\ differences[n].original_line_numbers[1] > differences[n].original_line_numbers[2]
       /\ ParseHeader(TextLines(Paragraphs(llm_input)[n])[1]).range
            = differences[n].new_line_numbers

\* -------------------------------------------------------- claims on the UI
\* C28 as stated: after the UI's analyze step succeeded, the registry holds
\* the newly seeded session under the UI's own session identifier, and a
\* clear the UI sends for that identifier is never answered NotFound.
C28_SeededUnderUISession ==
  /\ (AnalyzeChat /\ resp.status = 200 /\ resp.ext = "text") =>
       /\ StSessionId \in DOMAIN resp.after
       /\ resp.after[StSessionId] = ChatBot(default_chat_template(resp.body))
  /\ (resp.op = "clear" /\ DOMAIN resp.before # {}) => resp.status # 404

====
